---- MODULE Spec2Model ----
(***************************************************************************)
(* Model of FurAffinitySearchDownloader (src/search.py): the search-page   *)
(* loop of download_search_results, the per-item pipeline, _make_request   *)
(* and _download_file.  The remote site and the network are the            *)
(* environment: every request and every body read draws its outcome from   *)
(* a small set.  The filesystem is changed by the run only (spec section   *)
(* 5: the crawl is single-threaded and strictly sequential), and the       *)
(* local writes outside _download_file (os.makedirs, the .meta sidecar)    *)
(* are taken to succeed.                                                   *)
(*                                                                         *)
(* Spec      the run, tagging options at their defaults                    *)
(* TagSpec   the run with every setting of --plain and --separate-meta     *)
(* CallSpec  the run, or _download_file called on its own                  *)
(* NameSpec  the file name built from a title and a media URL              *)
(* FairSpec  the run in which every step that can be taken is taken        *)
(***************************************************************************)
EXTENDS Integers, FiniteSets, Sequences, TLC

\* ---- bounds of the model -------------------------------------------------
\* largest value tried for --max-files and --max-duplicates
MaxLimit == 2
\* search pages 1..MaxPage are requested; page MaxPage has no item links
MaxPage == 2
\* most item links on one search page
MaxLinks == 2
\* number of distinct target paths the remote content resolves to
NumPaths == 2
\* most chunks written to one destination file
MaxChunks == 1
\* longest title and longest media URL tried for the file name
MaxTitleLen == 2
MaxUrlLen == 3

Paths == 1..NumPaths

\* ---- outcomes of the environment ----------------------------------------
\* what urllib.request.urlopen does for one request (lines 90-101)
Statuses == {"ok", "http401", "http403", "http404", "neterr"}
\* the requests the run makes
Requests == {"search", "item", "media"}
\* what can be raised while the body is written to the destination file
WriteExceptions == {"OSError", "KeyboardInterrupt"}

VARIABLES
    max_files,        \* self.max_files
    max_duplicates,   \* self.max_duplicates
    overwrite,        \* self.overwrite
    cookie_file,      \* self.cookie_file is set
    metadata,         \* self.metadata
    text_meta,        \* self.text_meta
    pc,               \* position of the run in download_search_results
    page_num,         \* page_num
    download_count,   \* download_count
    duplicate_count,  \* duplicate_count
    response_url,     \* response.url of the search page read: "search" or "login"
    html_content,     \* the search page body read: [no_results, links, next_link]
    artwork_pages,    \* number of item links extracted from the page
    idx,              \* position of page_path in artwork_pages, 0 outside the loop
    file_path,        \* target path of the item being processed, 0 when none
    files,            \* paths that exist in the output directory
    partial,          \* existing paths whose content was not written completely
    metas,            \* paths that have a .meta sidecar file
    written,          \* chunks written by the _download_file call in progress
    outcome,          \* how the _download_file call returned
    request,          \* the request made by the last step, "none" if it made none
    status,           \* what urlopen did for that request
    requested_page,   \* page number in the URL of the last search request, 0 if none
    files0,           \* the output directory when the run started
    reason,           \* why the run ended
    exit_code,        \* exit status of the process
    rename,           \* self.rename
    title,            \* title of the item, a sequence of characters
    image_url,        \* image_url of the item, a sequence of characters
    file_name,        \* last component of file_path once it is computed
    named             \* lines 279-286 have run

config == <<max_files, max_duplicates, overwrite, cookie_file, metadata, text_meta, files0>>
counters == <<download_count, duplicate_count>>
disk == <<files, partial, metas>>
page == <<response_url, html_content, artwork_pages>>
net == <<request, status, requested_page>>
naming == <<rename, title, image_url, file_name, named>>
vars == <<max_files, max_duplicates, overwrite, cookie_file, metadata, text_meta,
          pc, page_num, download_count, duplicate_count, response_url,
          html_content, artwork_pages, idx, file_path, files, partial, metas,
          written, outcome, request, status, requested_page, files0,
          reason, exit_code, rename, title, image_url, file_name, named>>

NoPage == [no_results |-> FALSE, links |-> 0, next_link |-> FALSE]

\* ---- helpers translated from the code ------------------------------------

\* line 93: e.code == 403 or e.code == 401
IsAuthErrorOnly403(s) == s = "http403"
IsAuthError(s) == s \in {"http401", "http403"}

\* _make_request (lines 90-101): a response, sys.exit(1), or None
MakeRequest(s) ==
    IF s = "ok" THEN "response"
    ELSE IF IsAuthError(s) THEN "exit"
    ELSE "none"

\* line 130: "except Exception" catches the subclasses of Exception only;
\* KeyboardInterrupt and SystemExit derive from BaseException
HandlerCatchesAll(e) == TRUE
HandlerCatches(e) == e \notin {"KeyboardInterrupt", "SystemExit"}

\* lines 104 and 288: os.path.exists(file_path) and not self.overwrite
SkipExistingNegationLost(p) == p \in files /\ overwrite
SkipMissing(p) == p \notin files /\ ~overwrite
SkipExistingIgnoresOverwrite(p) == p \in files
SkipExisting(p) == p \in files /\ ~overwrite

\* line 291: self.max_duplicates > 0 and duplicate_count >= self.max_duplicates
DuplicateLimitOffByOne(n) == max_duplicates > 0 /\ n > max_duplicates
DuplicateLimitReached(n) == max_duplicates > 0 /\ n >= max_duplicates

\* line 304: self.max_files > 0 and download_count >= self.max_files
FileLimitOffByOne(n) == max_files > 0 /\ n > max_files
FileLimitWrongField(n) == max_duplicates > 0 /\ n >= max_duplicates
FileLimitReached(n) == max_files > 0 /\ n >= max_files

\* lines 132-133: if os.path.exists(file_path): os.remove(file_path)
RemoveSkipped(fs, p) == fs
RemoveIfExists(fs, p) == fs \ {p}

\* line 237: "/login/" in response.url and self.cookie_file
LoginRedirectWithoutCookieTest == response_url = "login"
LoginRedirect == response_url = "login" /\ cookie_file

\* line 296: if success
SuccessTestInverted(o) == o # "Saved"
IsSuccess(o) == o = "Saved"

\* lines 242-247: return on the first page, break on a later one
NoResultsReasonFromZero(n) ==
    IF n = 0 THEN "NoResultsOnFirstPage" ELSE "NoMoreResults"
NoResultsReason(n) ==
    IF n = 1 THEN "NoResultsOnFirstPage" ELSE "NoMoreResults"

\* _add_metadata, lines 179-186: the sidecar is written when tagging is on
AddMetadata(ms, p) == IF metadata /\ text_meta THEN ms \cup {p} ELSE ms

\* ---- the file name (lines 279-286) -----------------------------------------

Upper == {"A", "B", "C", "D", "E", "F", "G", "H", "I", "J", "K", "L", "M",
          "N", "O", "P", "Q", "R", "S", "T", "U", "V", "W", "X", "Y", "Z"}
Lower == {"a", "b", "c", "d", "e", "f", "g", "h", "i", "j", "k", "l", "m",
          "n", "o", "p", "q", "r", "s", "t", "u", "v", "w", "x", "y", "z"}
Digits == {"0", "1", "2", "3", "4", "5", "6", "7", "8", "9"}

\* the characters the class [A-Za-z0-9._-] of line 283 holds
AllowedChars == Upper \cup Lower \cup Digits \cup {".", "_", "-"}

\* line 283: a character that re.sub leaves alone
SafeCharDashForgotten(c) == c \in AllowedChars \ {"-"}
SafeChar(c) == c \in AllowedChars

\* line 283: re.sub(r'[^A-Za-z0-9._-]', ' ', title)
SafeTitle(t) == [i \in 1..Len(t) |-> IF SafeChar(t[i]) THEN t[i] ELSE " "]

\* str.rfind, counted from 1; 0 when c does not occur
RFind(u, c) ==
    IF \E i \in 1..Len(u) : u[i] = c
    THEN CHOOSE i \in 1..Len(u) :
            u[i] = c /\ \A k \in (i + 1)..Len(u) : u[k] # c
    ELSE 0

\* line 280: os.path.basename(image_url)
Basename(u) == SubSeq(u, RFind(u, "/") + 1, Len(u))

\* line 279: os.path.splitext(image_url)[1]; the last dot of the last
\* component starts the extension unless only dots precede it there
SplitExt(u) ==
    LET sepIndex == RFind(u, "/")
        dotIndex == RFind(u, ".")
    IN  IF /\ dotIndex > sepIndex
           /\ \E k \in (sepIndex + 1)..(dotIndex - 1) : u[k] # "."
        THEN SubSeq(u, dotIndex, Len(u))
        ELSE << >>

\* lines 282-286: the last component of file_path
FileName(r, t, u) == IF r THEN SafeTitle(t) \o SplitExt(u) ELSE Basename(u)

\* the titles and media URLs tried
TitleChars == {"a", "Z", "7", ".", "_", "-", "/", "!", " "}
UrlChars == {"a", ".", "/"}
SeqsUpTo(S, n) == UNION {[1..k -> S] : k \in 0..n}
ExampleTitle == <<"F", "o", "o", "/", "B", "a", "r", ":", " ", "v", "2", "!">>
ExampleUrl == <<"/", "a", "r", "t", "/", "1", ".", "p", "n", "g">>

\* ---- the run --------------------------------------------------------------

\* --plain and --separate-meta as argparse leaves them (lines 323, 328, 39);
\* neither is read outside _add_metadata, and TagSpec tries all their values
TaggingDefaults ==
    /\ metadata = TRUE
    /\ text_meta = FALSE

\* the run does not look at the characters of titles and URLs: file_path
\* stands for the path they resolve to
NoNaming ==
    /\ rename = TRUE
    /\ title = << >>
    /\ image_url = << >>
    /\ file_name = << >>
    /\ named = FALSE

Init ==
    /\ max_files \in 0..MaxLimit
    /\ max_duplicates \in 0..MaxLimit
    /\ overwrite \in BOOLEAN
    /\ cookie_file \in BOOLEAN
    /\ TaggingDefaults
    /\ files0 \in SUBSET Paths
    /\ files = files0
    /\ partial = {}
    /\ metas = {}
    /\ pc = "request_search"
    /\ page_num = 1
    /\ download_count = 0
    /\ duplicate_count = 0
    /\ response_url = "none"
    /\ html_content = NoPage
    /\ artwork_pages = 0
    /\ idx = 0
    /\ file_path = 0
    /\ written = 0
    /\ outcome = "none"
    /\ request = "none"
    /\ status = "none"
    /\ requested_page = 0
    /\ reason = "running"
    /\ exit_code = 0
    /\ NoNaming

\* the run ends: return, fall out of the loop, sys.exit or an uncaught exception
Finish(r, code) ==
    /\ pc' = "done"
    /\ reason' = r
    /\ exit_code' = code

\* urlopen is called for a request of kind r and does s; the URL of a
\* search request carries page_num (line 229)
Ask(r, s) ==
    /\ request' = r
    /\ status' = s
    /\ requested_page' = IF r = "search" THEN page_num ELSE requested_page

\* a step that makes no request
Quiet ==
    /\ request' = "none"
    /\ status' = "none"
    /\ UNCHANGED requested_page

\* line 311 indented into the for loop: the page number moves with each item
NextItemAdvancesInsideLoop ==
    /\ file_path' = 0
    /\ page_num' = page_num + 1
    /\ IF idx < artwork_pages
       THEN /\ idx' = idx + 1
            /\ pc' = "request_item"
       ELSE /\ idx' = 0
            /\ pc' = "request_search"

\* line 311 left out: the same page is requested again
NextItemNoAdvance ==
    /\ file_path' = 0
    /\ UNCHANGED page_num
    /\ IF idx < artwork_pages
       THEN /\ idx' = idx + 1
            /\ pc' = "request_item"
       ELSE /\ idx' = 0
            /\ pc' = "request_search"

\* the for loop takes the next page_path, or the loop ends and line 311
\* runs; file_path is assigned again (284, 286) before it is read again
NextItem ==
    /\ file_path' = 0
    /\ IF idx < artwork_pages
       THEN /\ idx' = idx + 1
            /\ pc' = "request_item"
            /\ UNCHANGED page_num
       ELSE /\ idx' = 0
            /\ pc' = "request_search"
            /\ page_num' = page_num + 1

\* line 231: response = self._make_request(url); line 233: break
RequestSearch ==
    /\ pc = "request_search"
    /\ \E s \in Statuses :
        /\ Ask("search", s)
        /\ CASE MakeRequest(s) = "response" ->
                    /\ pc' = "read_search"
                    /\ UNCHANGED <<reason, exit_code>>
             [] MakeRequest(s) = "exit" -> Finish("AuthenticationFailed", 1)
             [] OTHER -> Finish("PageFetchFailed", 0)
    /\ UNCHANGED <<config, naming, counters, disk, page, page_num, idx, file_path,
                   written, outcome>>

\* line 235: html_content = response.read().decode('utf-8'), outside any try;
\* the body may or may not hold the "Next" control of lines 136-144
ReadSearch ==
    /\ pc = "read_search"
    /\ \E readable \in BOOLEAN :
        IF readable
        THEN \E url \in {"search", "login"}, nr \in BOOLEAN, nx \in BOOLEAN,
                n \in 0..(IF page_num < MaxPage THEN MaxLinks ELSE 0) :
                /\ response_url' = url
                /\ html_content' = [no_results |-> nr, links |-> n,
                                    next_link |-> nx]
                /\ pc' = "check_search"
                /\ UNCHANGED <<reason, exit_code>>
        ELSE /\ Finish("UncaughtError", 1)
             /\ UNCHANGED <<response_url, html_content>>
    /\ Quiet
    /\ UNCHANGED <<config, naming, counters, disk, artwork_pages, page_num, idx,
                   file_path, written, outcome>>

\* lines 237-252: login redirect, "No results found", item links; once the
\* for loop starts, response and html_content are not read again
CheckSearch ==
    /\ pc = "check_search"
    /\ IF LoginRedirect
       THEN /\ Finish("AuthenticationFailed", 1)
            /\ UNCHANGED <<artwork_pages, idx, response_url, html_content>>
       ELSE IF html_content.no_results
       THEN /\ Finish(NoResultsReason(page_num), 0)
            /\ UNCHANGED <<artwork_pages, idx, response_url, html_content>>
       ELSE /\ artwork_pages' = html_content.links
            /\ IF html_content.links = 0
               THEN /\ Finish("NoMoreArtworkLinks", 0)
                    /\ UNCHANGED <<idx, response_url, html_content>>
               ELSE /\ idx' = 1
                    /\ pc' = "request_item"
                    /\ response_url' = "none"
                    /\ html_content' = NoPage
                    /\ UNCHANGED <<reason, exit_code>>
    /\ Quiet
    /\ UNCHANGED <<config, naming, counters, disk, page_num, file_path, written,
                   outcome>>

\* line 258: artwork_response = self._make_request(page_url); line 260: continue
RequestItem ==
    /\ pc = "request_item"
    /\ \E s \in Statuses :
        /\ Ask("item", s)
        /\ CASE MakeRequest(s) = "response" ->
                    /\ pc' = "read_item"
                    /\ UNCHANGED <<reason, exit_code, idx, page_num, file_path>>
             [] MakeRequest(s) = "exit" ->
                    /\ Finish("AuthenticationFailed", 1)
                    /\ UNCHANGED <<idx, page_num, file_path>>
             [] OTHER ->
                    /\ NextItem
                    /\ UNCHANGED <<reason, exit_code>>
    /\ UNCHANGED <<config, naming, counters, disk, page, written, outcome>>

\* lines 262-286: read the item page (outside any try), the "System Message"
\* and media URL checks, then the target path from artist and title
ReadItem ==
    /\ pc = "read_item"
    /\ \E body \in {"unreadable", "system_message", "no_media", "media"} :
        CASE body = "unreadable" ->
                /\ Finish("UncaughtError", 1)
                /\ UNCHANGED <<idx, page_num, file_path>>
          [] body \in {"system_message", "no_media"} ->
                /\ NextItem
                /\ UNCHANGED <<reason, exit_code>>
          [] OTHER ->
                \E p \in Paths :
                    /\ file_path' = p
                    /\ pc' = "check_exists"
                    /\ UNCHANGED <<reason, exit_code, idx, page_num>>
    /\ Quiet
    /\ UNCHANGED <<config, naming, counters, disk, page, written, outcome>>

\* lines 288-295: the duplicate branch, or the call of _download_file
CheckExists ==
    /\ pc = "check_exists"
    /\ IF SkipExisting(file_path)
       THEN /\ duplicate_count' = duplicate_count + 1
            /\ IF DuplicateLimitReached(duplicate_count + 1)
               THEN Finish("MaxDuplicatesReached", 0)
               ELSE /\ pc' = "sleep"
                    /\ UNCHANGED <<reason, exit_code>>
       ELSE /\ pc' = "download"
            /\ UNCHANGED <<duplicate_count, reason, exit_code>>
    /\ Quiet
    /\ UNCHANGED <<config, naming, download_count, disk, page, page_num, idx,
                   file_path, written, outcome>>

\* _download_file, lines 104-115: the exists check, the request inside the
\* try, and open(file_path, 'wb'), which creates or truncates the file
StartDownload ==
    /\ pc = "download"
    /\ IF SkipExisting(file_path)
       THEN /\ outcome' = "SkippedExists"
            /\ pc' = "after_download"
            /\ Quiet
            /\ UNCHANGED <<files, partial, written, reason, exit_code>>
       ELSE \E s \in Statuses :
            /\ Ask("media", s)
            /\ CASE MakeRequest(s) = "response" ->
                        /\ files' = files \cup {file_path}
                        /\ partial' = partial \cup {file_path}
                        /\ written' = 0
                        /\ pc' = "writing"
                        /\ UNCHANGED <<outcome, reason, exit_code>>
                 [] MakeRequest(s) = "exit" ->
                        IF HandlerCatches("SystemExit")
                        THEN /\ outcome' = "Failed"
                             /\ files' = RemoveIfExists(files, file_path)
                             /\ partial' = RemoveIfExists(partial, file_path)
                             /\ pc' = "after_download"
                             /\ UNCHANGED <<written, reason, exit_code>>
                        ELSE /\ Finish("AuthenticationFailed", 1)
                             /\ UNCHANGED <<outcome, files, partial, written>>
                 [] OTHER ->
                        /\ outcome' = "NoResponse"
                        /\ pc' = "after_download"
                        /\ UNCHANGED <<files, partial, written, reason, exit_code>>
    /\ UNCHANGED <<config, naming, counters, metas, page, page_num, idx, file_path>>

\* lines 118-123 and 126: one more chunk reaches the destination file
WriteChunk ==
    /\ pc = "writing"
    /\ written < MaxChunks
    /\ written' = written + 1
    /\ Quiet
    /\ UNCHANGED <<config, naming, counters, disk, page, page_num, idx, file_path,
                   outcome, pc, reason, exit_code>>

\* lines 120-121 and 128: the body ends, the file is closed, return True
FinishWrite ==
    /\ pc = "writing"
    /\ partial' = partial \ {file_path}
    /\ outcome' = "Saved"
    /\ pc' = "after_download"
    /\ Quiet
    /\ UNCHANGED <<config, naming, counters, files, metas, page, page_num, idx,
                   file_path, written, reason, exit_code>>

\* lines 115-134: something is raised while the file is open; the with block
\* closes the file, "except Exception" removes it and returns False, and
\* what the handler does not catch leaves _download_file and ends the run
WriteRaise ==
    /\ pc = "writing"
    /\ \E e \in WriteExceptions :
        IF HandlerCatches(e)
        THEN /\ files' = RemoveIfExists(files, file_path)
             /\ partial' = RemoveIfExists(partial, file_path)
             /\ outcome' = "Failed"
             /\ pc' = "after_download"
             /\ UNCHANGED <<reason, exit_code>>
        ELSE /\ Finish("Interrupted", 130)
             /\ UNCHANGED <<files, partial, outcome>>
    /\ Quiet
    /\ UNCHANGED <<config, naming, counters, metas, page, page_num, idx, file_path,
                   written>>

\* lines 296-306: the counters, _add_metadata and the download limit; the
\* returned value is used here and nowhere later
AfterDownload ==
    /\ pc = "after_download"
    /\ IF IsSuccess(outcome)
       THEN /\ duplicate_count' = 0
            /\ download_count' = download_count + 1
            /\ metas' = AddMetadata(metas, file_path)
            /\ IF FileLimitReached(download_count + 1)
               THEN Finish("MaxFilesReached", 0)
               ELSE /\ pc' = "sleep"
                    /\ UNCHANGED <<reason, exit_code>>
       ELSE /\ pc' = "sleep"
            /\ UNCHANGED <<counters, metas, reason, exit_code>>
    /\ outcome' = "none"
    /\ written' = 0
    /\ Quiet
    /\ UNCHANGED <<config, naming, files, partial, page, page_num, idx, file_path>>

\* line 308: time.sleep(0.5), then the next item or line 311
Sleep ==
    /\ pc = "sleep"
    /\ NextItem
    /\ Quiet
    /\ UNCHANGED <<config, naming, counters, disk, page, written, outcome,
                   reason, exit_code>>

Next ==
    \/ RequestSearch
    \/ ReadSearch
    \/ CheckSearch
    \/ RequestItem
    \/ ReadItem
    \/ CheckExists
    \/ StartDownload
    \/ WriteChunk
    \/ FinishWrite
    \/ WriteRaise
    \/ AfterDownload
    \/ Sleep

Spec == Init /\ [][Next]_vars

\* _download_file called on its own with any target path (lines 103-134):
\* idx = 0 marks the call as made outside the item loop
DirectCall ==
    /\ max_files \in 0..MaxLimit
    /\ max_duplicates \in 0..MaxLimit
    /\ overwrite \in BOOLEAN
    /\ cookie_file \in BOOLEAN
    /\ TaggingDefaults
    /\ files0 \in SUBSET Paths
    /\ files = files0
    /\ partial = {}
    /\ metas = {}
    /\ pc = "download"
    /\ page_num = 1
    /\ download_count = 0
    /\ duplicate_count = 0
    /\ response_url = "none"
    /\ html_content = NoPage
    /\ artwork_pages = 0
    /\ idx = 0
    /\ file_path \in Paths
    /\ written = 0
    /\ outcome = "none"
    /\ request = "none"
    /\ status = "none"
    /\ requested_page = 0
    /\ reason = "running"
    /\ exit_code = 0
    /\ NoNaming

\* either entry point: the whole run, or one call of _download_file
CallInit == Init \/ DirectCall

\* line 296 runs when _download_file was called from the item loop; a
\* direct call ends when _download_file returns
ReturnToLoop == idx > 0 /\ AfterDownload

CallNext ==
    \/ RequestSearch
    \/ ReadSearch
    \/ CheckSearch
    \/ RequestItem
    \/ ReadItem
    \/ CheckExists
    \/ StartDownload
    \/ WriteChunk
    \/ FinishWrite
    \/ WriteRaise
    \/ ReturnToLoop
    \/ Sleep

CallSpec == CallInit /\ [][CallNext]_vars

\* lines 274-286 for one item: any title and media URL within the bounds,
\* and the documented example
NameInit ==
    /\ max_files = 0
    /\ max_duplicates = 0
    /\ overwrite = FALSE
    /\ cookie_file = FALSE
    /\ metadata = TRUE
    /\ text_meta = FALSE
    /\ files0 = {}
    /\ files = {}
    /\ partial = {}
    /\ metas = {}
    /\ pc = "read_item"
    /\ page_num = 1
    /\ download_count = 0
    /\ duplicate_count = 0
    /\ response_url = "none"
    /\ html_content = NoPage
    /\ artwork_pages = 1
    /\ idx = 1
    /\ file_path = 0
    /\ written = 0
    /\ outcome = "none"
    /\ request = "none"
    /\ status = "none"
    /\ requested_page = 1
    /\ reason = "running"
    /\ exit_code = 0
    /\ rename \in BOOLEAN
    /\ \/ /\ title \in SeqsUpTo(TitleChars, MaxTitleLen)
          /\ image_url \in SeqsUpTo(UrlChars, MaxUrlLen)
       \/ /\ title = ExampleTitle
          /\ image_url = ExampleUrl
    /\ file_name = << >>
    /\ named = FALSE

\* lines 279-286: file_ext, file_name, safe_title and the name in file_path
BuildFileName ==
    /\ ~named
    /\ file_name' = FileName(rename, title, image_url)
    /\ named' = TRUE
    /\ UNCHANGED <<config, counters, disk, page, net, pc, page_num, idx,
                   file_path, written, outcome, reason, exit_code, rename,
                   title, image_url>>

NameSpec == NameInit /\ [][BuildFileName]_vars

\* the run with every setting of --plain and --separate-meta, the limits off
TagInit ==
    /\ max_files = 0
    /\ max_duplicates = 0
    /\ overwrite \in BOOLEAN
    /\ cookie_file = FALSE
    /\ metadata \in BOOLEAN
    /\ text_meta \in BOOLEAN
    /\ files0 \in SUBSET Paths
    /\ files = files0
    /\ partial = {}
    /\ metas = {}
    /\ pc = "request_search"
    /\ page_num = 1
    /\ download_count = 0
    /\ duplicate_count = 0
    /\ response_url = "none"
    /\ html_content = NoPage
    /\ artwork_pages = 0
    /\ idx = 0
    /\ file_path = 0
    /\ written = 0
    /\ outcome = "none"
    /\ request = "none"
    /\ status = "none"
    /\ requested_page = 0
    /\ reason = "running"
    /\ exit_code = 0
    /\ NoNaming

TagSpec == TagInit /\ [][Next]_vars

\* the run is one sequential thread: a step that can be taken is taken
\* (every request, read and write returns)
FairSpec == Spec /\ WF_vars(Next)

TypeOK ==
    /\ pc \in {"request_search", "read_search", "check_search", "request_item",
               "read_item", "check_exists", "download", "writing",
               "after_download", "sleep", "done"}
    /\ page_num \in 1..MaxPage
    /\ idx \in 0..MaxLinks
    /\ partial \subseteq files
    /\ exit_code \in {0, 1, 130}

\* ---- properties ------------------------------------------------------------

\* the run has ended: nothing is requested and no counter moves any more
NothingAfterEnd == pc = "done" => (request' = "none" /\ counters' = counters)

\* C1: whenever max_files > 0, the count of successful downloads is at most
\* max_files, in every reachable state of the run.
C1_DownloadsWithinLimit == max_files > 0 => download_count <= max_files

\* the limit of two is reached by two saved files
C1_Witness == max_files = 2 /\ download_count = 2 /\ reason = "MaxFilesReached"

\* C2: with max_duplicates > 0 the run has ended with MaxDuplicatesReached
\* as soon as duplicate_count reaches max_duplicates, nothing is requested
\* after the end, and every step that counts a new download leaves
\* duplicate_count at 0.
C2_StopsAtDuplicateLimit ==
    /\ [](max_duplicates > 0 /\ duplicate_count >= max_duplicates
            => /\ pc = "done"
               /\ reason = "MaxDuplicatesReached"
               /\ duplicate_count = max_duplicates)
    /\ [][NothingAfterEnd]_vars
    /\ [][download_count' # download_count => duplicate_count' = 0]_vars

\* a saved file, then a duplicate that ends the run
C2_Witness ==
    /\ reason = "MaxDuplicatesReached"
    /\ download_count = 1
    /\ duplicate_count = max_duplicates

\* C3: when max_files > 0 and download_count has reached max_files the run
\* has ended with MaxFilesReached, and after the end no item page and no
\* media URL is requested, also when item links remain on the page.
C3_EndsAtFileLimit ==
    /\ [](max_files > 0 /\ download_count >= max_files
            => pc = "done" /\ reason = "MaxFilesReached")
    /\ [][pc = "done" => request' \notin {"item", "media"}]_vars

\* two item links, max_files = 1: one file saved, the second item never fetched
C3_Witness ==
    /\ max_files = 1
    /\ reason = "MaxFilesReached"
    /\ page_num = 1
    /\ artwork_pages = 2
    /\ idx = 1
    /\ download_count = 1

\* overwrite is off and every target path exists when the run starts
Repopulated == ~overwrite /\ files0 = Paths

\* C4: a run with overwrite off over a directory in which every target
\* exists downloads nothing: no media request, download_count stays 0, no
\* file or sidecar is written or removed, and duplicate_count grows by one
\* exactly at each item that reaches the exists check.
C4_Idempotent ==
    /\ [](Repopulated => /\ download_count = 0
                         /\ request # "media"
                         /\ pc \notin {"download", "writing", "after_download"}
                         /\ files = files0
                         /\ partial = {}
                         /\ metas = {})
    /\ [][Repopulated =>
            duplicate_count' = duplicate_count
                                 + (IF pc = "check_exists" THEN 1 ELSE 0)]_vars

\* two items were reached and both were counted as duplicates
C4_Witness == Repopulated /\ duplicate_count = 2 /\ idx = 2 /\ pc = "sleep"

\* C5: when _download_file has returned after an I/O or network error that
\* followed N > 0 written chunks, the destination path does not exist, the
\* outcome is Failed, no counter changes, and the run goes on to the pacing
\* delay and from there to the next item or page.
C5_NoPartialFileAfterFailure ==
    /\ [](pc = "after_download" /\ outcome = "Failed" /\ written > 0
            => file_path \notin files /\ partial = {})
    /\ [][pc = "after_download" /\ outcome = "Failed"
            => pc' = "sleep" /\ idx' = idx /\ counters' = counters]_vars
    /\ [][pc = "sleep" => pc' \in {"request_item", "request_search"}]_vars

\* a download failed after a chunk was written and the file is gone
C5_Witness ==
    /\ pc = "after_download"
    /\ outcome = "Failed"
    /\ written > 0
    /\ file_path \notin files

\* C6: after the run has ended, also by an interrupt delivered while bytes
\* were being written, no partially written destination file remains.
C6_NoPartialFileAfterRun == pc = "done" => partial = {}

\* C7: a 401 or 403 answer to a search page, item page or media request ends
\* the run in that step with AuthenticationFailed and exit code 1; the
\* counters, the download outcome and the loop position do not change, and
\* nothing is requested after the end.
C7_AuthErrorIsFatal ==
    /\ [][(request' \in Requests /\ status' \in {"http401", "http403"})
            => /\ pc' = "done"
               /\ reason' = "AuthenticationFailed"
               /\ exit_code' = 1
               /\ counters' = counters
               /\ outcome' = outcome
               /\ idx' = idx
               /\ page_num' = page_num]_vars
    /\ [][pc = "done" => /\ request' = "none"
                          /\ UNCHANGED <<counters, reason, exit_code>>]_vars

\* the media request of an item was answered with 401 or 403
C7_Witness ==
    /\ pc = "done"
    /\ reason = "AuthenticationFailed"
    /\ request = "media"
    /\ status \in {"http401", "http403"}
    /\ outcome = "none"

\* C8: when a search page that was fetched and read was served from a login
\* URL, the run ends with AuthenticationFailed and exit code 1 if a cookie
\* file was supplied, whatever the body says about results and before any
\* item link is extracted or requested; without a cookie file the step does
\* not end the run with AuthenticationFailed.
C8_LoginRedirect ==
    [][pc = "check_search" /\ response_url = "login"
        => IF cookie_file
           THEN /\ pc' = "done"
                /\ reason' = "AuthenticationFailed"
                /\ exit_code' = 1
                /\ artwork_pages' = artwork_pages
                /\ request' = "none"
           ELSE reason' # "AuthenticationFailed"]_vars

\* a login page with the no-results marker and item links, cookies supplied
C8_Witness ==
    /\ pc = "done"
    /\ reason = "AuthenticationFailed"
    /\ response_url = "login"
    /\ cookie_file
    /\ html_content.no_results
    /\ html_content.links > 0
    /\ artwork_pages = 0

\* C9: a run that ends while an item is being processed ends for a limit,
\* an authentication failure or an interrupt, never because an error raised
\* while processing the item escaped.
C9_ItemErrorsNeverEndRun ==
    (pc = "done" /\ idx > 0)
        => reason \in {"MaxFilesReached", "MaxDuplicatesReached",
                       "AuthenticationFailed", "Interrupted"}

\* C10: a run that ends because a search page could not be fetched or read
\* ends with exit code 0.
C10_PageFailureIsGraceful ==
    (pc = "done" /\ idx = 0 /\ reason \in {"PageFetchFailed", "UncaughtError"})
        => exit_code = 0

\* C11: whenever the target path exists and overwrite is off, neither the
\* exists check of the run (line 288) nor the one of _download_file (line
\* 104) is followed by a request: the step makes no request and leaves the
\* disk alone, _download_file returns SkippedExists, and every media request
\* is made for a path that is missing or with overwrite on.
C11_NoRequestForExisting ==
    /\ [][(pc \in {"check_exists", "download"}
             /\ file_path \in files /\ ~overwrite)
            => /\ request' = "none"
               /\ files' = files
               /\ partial' = partial
               /\ pc' \in {"sleep", "done", "after_download"}
               /\ (pc = "download" => outcome' = "SkippedExists")]_vars
    /\ [][request' = "media" => (file_path \notin files \/ overwrite)]_vars

\* _download_file, called on an existing path, has returned without a request
C11_Witness ==
    /\ pc = "after_download"
    /\ outcome = "SkippedExists"
    /\ file_path \in files
    /\ ~overwrite
    /\ request = "none"

\* C12: whenever separate-metadata mode is on, the step that handles a
\* Saved download leaves a sidecar next to the media file, for every setting
\* of the metadata toggle.
C12_SidecarForEverySaved ==
    [][(pc = "after_download" /\ outcome = "Saved" /\ text_meta)
        => file_path \in metas']_vars

\* C14: duplicate_count moves only by +1 at an already-exists skip or to 0
\* at a Saved download; download_count never decreases and moves only by +1
\* at a Saved download; an item skipped at its fetch or page checks, and a
\* download that returned anything but Saved, leave both counters alone.
C14_CounterFrame ==
    /\ [][duplicate_count' # duplicate_count
            => \/ /\ duplicate_count' = duplicate_count + 1
                  /\ pc = "check_exists"
                  /\ file_path \in files
                  /\ ~overwrite
               \/ /\ duplicate_count' = 0
                  /\ pc = "after_download"
                  /\ outcome = "Saved"]_vars
    /\ [][download_count' # download_count
            => /\ download_count' = download_count + 1
               /\ pc = "after_download"
               /\ outcome = "Saved"]_vars
    /\ [][(\/ pc \in {"request_item", "read_item", "download", "writing"}
           \/ pc = "after_download" /\ outcome # "Saved")
            => counters' = counters]_vars

\* a failed download was handled after a duplicate had been counted
C14_Witness ==
    /\ pc = "sleep"
    /\ file_path \notin files
    /\ duplicate_count = 1
    /\ download_count = 0
    /\ idx = 2

\* C15: the loop leaves an item (for the next item or for the next search
\* page) only from the pacing delay at line 308.
C15_DelayAfterEveryItem ==
    [][(idx > 0 /\ idx' # idx) => pc = "sleep"]_vars

\* C16: the first search request is for page 1 and each later one for the
\* page after the one requested before; page_num moves by exactly one, only
\* in the step that leaves the last item link of the page; a search page is
\* requested only outside the item loop; and a page that passed the login
\* and no-results checks with item links starts the item loop whether or
\* not it holds a next-page link.
C16_PagesInOrder ==
    /\ [][request' = "search"
            => /\ requested_page' = requested_page + 1
               /\ idx = 0
               /\ page_num' = page_num]_vars
    /\ [][page_num' # page_num
            => /\ page_num' = page_num + 1
               /\ idx > 0
               /\ idx = artwork_pages
               /\ pc' = "request_search"
               /\ request' # "search"]_vars
    /\ [][(pc = "check_search" /\ html_content.links > 0
             /\ ~html_content.no_results
             /\ ~(response_url = "login" /\ cookie_file))
            => /\ pc' = "request_item"
               /\ idx' = 1
               /\ artwork_pages' = html_content.links]_vars

\* page 2 has been requested after the two items of page 1
C16_Witness ==
    /\ request = "search"
    /\ requested_page = 2
    /\ page_num = 2
    /\ artwork_pages = 2

\* C17: for a search page that passed the login check, the no-results
\* marker ends the run before any item link is extracted or requested, with
\* NoResultsOnFirstPage on page 1 and NoMoreResults on a later page; without
\* the marker an empty link list ends it with NoMoreArtworkLinks; all three
\* end with exit code 0.
C17_NoResultsStops ==
    /\ [][(pc = "check_search" /\ ~(response_url = "login" /\ cookie_file))
            => IF html_content.no_results
               THEN /\ pc' = "done"
                    /\ reason' = IF page_num = 1 THEN "NoResultsOnFirstPage"
                                                 ELSE "NoMoreResults"
                    /\ artwork_pages' = artwork_pages
                    /\ request' = "none"
               ELSE html_content.links = 0
                       => pc' = "done" /\ reason' = "NoMoreArtworkLinks"]_vars
    /\ [](reason \in {"NoResultsOnFirstPage", "NoMoreResults",
                      "NoMoreArtworkLinks"}
            => pc = "done" /\ exit_code = 0)

\* a first page with the marker and with item links ended the run
C17_Witness ==
    /\ reason = "NoResultsOnFirstPage"
    /\ html_content.no_results
    /\ html_content.links > 0
    /\ artwork_pages = 0
    /\ exit_code = 0

\* C18: with overwrite on, duplicate_count is 0 in every reachable state and
\* the run never ends with MaxDuplicatesReached.
C18_NoDuplicatesWithOverwrite ==
    overwrite => duplicate_count = 0 /\ reason # "MaxDuplicatesReached"

\* every target existed, the limit was one duplicate, two files were saved
C18_Witness ==
    /\ overwrite
    /\ files0 = Paths
    /\ max_duplicates = 1
    /\ download_count = 2

\* C19: with overwrite off no path of the starting directory is removed or
\* opened for writing, a destination is opened only when it does not exist,
\* and download_count (with the Saved download not yet counted) is the
\* number of complete files the run created.
C19_OnlyNewFiles ==
    /\ [](~overwrite
            => /\ files0 \subseteq files
               /\ partial \cap files0 = {}
               /\ download_count
                    + (IF pc = "after_download" /\ outcome = "Saved"
                       THEN 1 ELSE 0)
                    = Cardinality((files \ partial) \ files0))
    /\ [][(~overwrite /\ pc' = "writing" /\ pc # "writing")
            => file_path \notin files /\ file_path \in files']_vars

\* a second item resolved to the path the first item had just created
C19_Witness ==
    /\ ~overwrite
    /\ download_count = 1
    /\ duplicate_count = 1
    /\ file_path \in files \ files0
    /\ idx = 2

\* the part of file_name that follows the characters of the title
NameTail == SubSeq(file_name, Len(title) + 1, Len(file_name))

\* u ends with the sequence e
EndsWith(u, e) ==
    /\ Len(e) <= Len(u)
    /\ \A i \in 1..Len(e) : e[i] = u[Len(u) - Len(e) + i]

\* the last component of u holds a dot that follows a character other than
\* a dot of that component
HasExtension(u) ==
    \E d \in 1..Len(u) :
        /\ u[d] = "."
        /\ \A k \in d..Len(u) : u[k] # "/"
        /\ \E k \in 1..(d - 1) :
              /\ u[k] # "."
              /\ \A m \in k..d : u[m] # "/"

\* C13: with renaming on, the file name is as long as the title plus the
\* extension, holds at each position of the title the title's character
\* when it is in [A-Za-z0-9._-] and one space otherwise, and ends with the
\* extension of the media URL (from the last dot of its last component, no
\* further dot or slash, empty when that component has no extension); with
\* renaming off it is the part of the URL after its last slash; the title
\* "Foo/Bar: v2!" with a .png URL gives "Foo Bar  v2 .png".
C13_Sanitization ==
    named =>
        IF rename
        THEN /\ Len(file_name) >= Len(title)
             /\ \A i \in 1..Len(title) :
                    file_name[i] = IF title[i] \in AllowedChars
                                   THEN title[i] ELSE " "
             /\ EndsWith(image_url, NameTail)
             /\ (NameTail # << >>) = HasExtension(image_url)
             /\ NameTail # << >>
                    => /\ NameTail[1] = "."
                       /\ \A k \in 2..Len(NameTail) :
                              NameTail[k] \notin {".", "/"}
             /\ (title = ExampleTitle /\ image_url = ExampleUrl)
                    => file_name = <<"F", "o", "o", " ", "B", "a", "r", " ",
                                     " ", "v", "2", " ", ".", "p", "n", "g">>
        ELSE /\ EndsWith(image_url, file_name)
             /\ \A i \in 1..Len(file_name) : file_name[i] # "/"
             /\ \/ Len(file_name) = Len(image_url)
                \/ image_url[Len(image_url) - Len(file_name)] = "/"

\* the documented example has been named
C13_Witness ==
    /\ named
    /\ rename
    /\ title = ExampleTitle
    /\ Len(file_name) = 16
    /\ file_name[4] = " "
    /\ file_name[13] = "."

\* C20: with finitely many item links on each page and a page (at most
\* page MaxPage) that fails to fetch, signals no results or has no item
\* links, every run in which each step returns reaches a terminal state and
\* requests no page beyond that one; with max_files = 0 and
\* max_duplicates = 0 a run that ends normally ends at a search page, never
\* inside the item loop.
C20_Terminates ==
    /\ <>(pc = "done")
    /\ [](requested_page <= MaxPage)
    /\ []((pc = "done" /\ max_files = 0 /\ max_duplicates = 0
             /\ exit_code = 0)
            => /\ idx = 0
               /\ reason \in {"PageFetchFailed", "NoResultsOnFirstPage",
                              "NoMoreResults", "NoMoreArtworkLinks"})

\* no limit was set and the run ended at the empty last page
C20_Witness ==
    /\ pc = "done"
    /\ max_files = 0
    /\ max_duplicates = 0
    /\ requested_page = MaxPage
    /\ reason = "NoMoreArtworkLinks"
    /\ download_count = 2

====
